---- MODULE Spec2Model ----
(***************************************************************************)
(* A model of Anole_gene_trees_fetch.py: the checkpointed, resumable batch *)
(* pipeline that fetches a gene record and its gene tree per identifier,   *)
(* flattens the tree into rows and writes one artifact per identifier.     *)
(***************************************************************************)
EXTENDS Integers, Sequences, FiniteSets, TLC

\* ------------------------------------------------------------------ bounds
\* Number of rows of the identifier list (Green_Anole_protein-coding_genes.csv).
MaxGenes == 2
\* Number of times the script is started, one after the other.
MaxRuns == 3
\* Longest children list of a tree node drawn for the flattener.
MaxChildren == 2

\* ------------------------------------------------------- JSON-like values
\* A decoded JSON value carries its Python type, so that isinstance(), `in`
\* and .get() can be modelled by what they do on each type. The payload has
\* a field of its own per type.
Null == [t |-> "null"]
Str(x) == [t |-> "str", s |-> x]
Num(x) == [t |-> "num", n |-> x]
List(x) == [t |-> "list", l |-> x]
Dict(x) == [t |-> "dict", d |-> x]

\* Python truthiness of a decoded value (`if gene_info`, `if gene_tree_info`).
Truthy(j) ==
    CASE j.t = "null" -> FALSE
      [] j.t = "str"  -> j.s # ""
      [] j.t = "num"  -> j.n # 0
      [] j.t = "list" -> Len(j.l) > 0
      [] j.t = "dict" -> DOMAIN j.d # {}

\* `key in j` raises TypeError when j is a number or None.
InRaises(j) == j.t \in {"num", "null"}

\* `key in j` on a dict (key lookup), a list (element lookup) or a string
\* (substring test; every string of the model either equals the key or does
\* not contain it).
In(key, j) ==
    CASE j.t = "dict" -> key \in DOMAIN j.d
      [] j.t = "list" -> \E k \in 1..Len(j.l) : j.l[k].t = "str" /\ j.l[k].s = key
      [] j.t = "str"  -> j.s = key
      [] OTHER        -> FALSE

\* dict.get(key, default)
Get(dict, key, default) == IF key \in DOMAIN dict.d THEN dict.d[key] ELSE default

NA == Str("N/A")

\* The result of a call that may raise: the value returned, or ok = FALSE.
Ok(x) == [ok |-> TRUE, data |-> x]
Raise == [ok |-> FALSE, data |-> <<>>]

\* --------------------------------------------------------- tree flattener
\* The else branch of traverse_tree (lines 54-62): the row of a node without
\* 'children'. `.get` on a taxonomy or gene_member that is no dict raises.
LeafRows(node) ==
    IF "taxonomy" \in DOMAIN node.d
    THEN IF node.d["taxonomy"].t # "dict" THEN Raise
         ELSE IF "gene_member" \in DOMAIN node.d /\ node.d["gene_member"].t # "dict"
              THEN Raise
              ELSE Ok(<< [gene_id   |-> Get(node, "id", NA),
                          gene_name |-> IF "gene_member" \in DOMAIN node.d
                                        THEN Get(node.d["gene_member"], "display_name", NA)
                                        ELSE NA,
                          species   |-> Get(node.d["taxonomy"], "scientific_name", NA)] >>)
    ELSE Ok(<<>>)

RECURSIVE traverse_tree(_)
RECURSIVE traverse_seq(_)

\* for child in node['children']: traverse_tree(child). Iterating a dict
\* yields its keys and iterating a string its characters, which are strings;
\* a number or None is not iterable.
traverse_children(c) ==
    CASE c.t = "list" -> traverse_seq(c.l)
      [] c.t = "dict" -> IF DOMAIN c.d \cap {"children", "taxonomy"} # {}
                         THEN Raise ELSE Ok(<<>>)
      [] c.t = "str"  -> Ok(<<>>)
      [] OTHER        -> Raise

traverse_seq(seq) ==
    IF Len(seq) = 0 THEN Ok(<<>>)
    ELSE LET h == traverse_tree(Head(seq)) IN
         IF ~h.ok THEN Raise
         ELSE LET r == traverse_seq(Tail(seq)) IN
              IF ~r.ok THEN Raise ELSE Ok(h.data \o r.data)

\* Mutant: a node with 'children' that carries a taxonomy is extracted too.
traverse_tree_extracts_internal(node) ==
    IF InRaises(node) THEN Raise
    ELSE IF In("children", node)
         THEN IF node.t = "dict"
              THEN LET own == LeafRows(node)
                       kids == traverse_children(node.d["children"]) IN
                   IF own.ok /\ kids.ok THEN Ok(own.data \o kids.data) ELSE Raise
              ELSE Raise
         ELSE IF node.t = "dict" THEN LeafRows(node)
              ELSE IF In("taxonomy", node) THEN Raise ELSE Ok(<<>>)

\* Lines 49-62. Subscripting a list or a string with 'children' or
\* 'taxonomy' raises.
traverse_tree(node) ==
    IF InRaises(node) THEN Raise
    ELSE IF In("children", node)
         THEN IF node.t = "dict" THEN traverse_children(node.d["children"]) ELSE Raise
         ELSE IF node.t = "dict" THEN LeafRows(node)
              ELSE IF In("taxonomy", node) THEN Raise ELSE Ok(<<>>)

\* Lines 46-70
process_gene_tree_data(gene_tree_info) ==
    IF gene_tree_info.t = "list" /\ Len(gene_tree_info.l) > 0
    THEN LET first == gene_tree_info.l[1] IN
         IF InRaises(first) THEN Raise
         ELSE IF In("tree", first)
              THEN IF first.t = "dict" THEN traverse_tree(first.d["tree"]) ELSE Raise
              ELSE Ok(<<>>)
    ELSE IF gene_tree_info.t = "dict" /\ "tree" \in DOMAIN gene_tree_info.d
         THEN traverse_tree(gene_tree_info.d["tree"])
         ELSE Ok(<<>>)

\* ------------------------------------------- trees drawn for the flattener
Taxonomies == { Dict([scientific_name |-> Str("Species A")]),
                Dict([common_name |-> Str("anole")]) }
GeneMembers == { Dict([display_name |-> Str("GeneA")]),
                 Dict([stable_id |-> Str("M1")]) }
LeafIds == { Str("L1"), Str("L2") }

LeafOf(D, tax, gm, id) ==
    Dict([k \in D |-> CASE k = "taxonomy" -> tax
                        [] k = "gene_member" -> gm
                        [] OTHER -> id])

\* Every leaf: each of taxonomy, gene_member and id present or missing.
Leaves ==
    { LeafOf(D, tax, gm, id) :
        D \in SUBSET {"taxonomy", "gene_member", "id"},
        tax \in Taxonomies, gm \in GeneMembers, id \in LeafIds }

Internal(children) == Dict([children |-> List(children)])
\* An internal node that also carries leaf-shaped fields.
InternalWithFields(children) ==
    Dict([children |-> List(children),
          taxonomy |-> Dict([scientific_name |-> Str("Species I")]),
          id |-> Str("I1")])

SeqsUpTo(S, n) == UNION { [1..m -> S] : m \in 0..n }

Depth1 ==
    { Internal(c) : c \in SeqsUpTo(Leaves, MaxChildren) }
    \cup { InternalWithFields(c) : c \in SeqsUpTo(Leaves, 1) }

LeafA == LeafOf({"taxonomy", "gene_member", "id"},
                Dict([scientific_name |-> Str("Species A")]),
                Dict([display_name |-> Str("GeneA")]), Str("L1"))
LeafB == LeafOf({"taxonomy", "id"},
                Dict([scientific_name |-> Str("Species A")]),
                Dict([display_name |-> Str("GeneA")]), Str("L2"))
LeafNoTax == LeafOf({"id"}, Null, Null, Str("L2"))

Depth2 ==
    { Internal(c) :
        c \in SeqsUpTo({LeafA, LeafNoTax, Internal(<<LeafB, LeafA>>),
                        Internal(<<>>), InternalWithFields(<<LeafB>>)}, MaxChildren) }

WellFormedTrees == Leaves \cup Depth1 \cup Depth2

\* Nodes that are not key-value structures, or whose fields have another type.
OddNodes ==
    { Null, Num(5), Str("abc"), Str("children"), List(<<>>), List(<<Str("taxonomy")>>),
      Dict([children |-> Null]), Dict([children |-> Str("abc")]),
      Dict([children |-> Dict([a |-> Num(1)])]),
      Dict([taxonomy |-> Null]), Dict([taxonomy |-> Str("abc")]),
      Dict([taxonomy |-> Dict([scientific_name |-> Str("Species A")]),
            gene_member |-> Null]),
      Internal(<<LeafA, Num(5)>>), Internal(<<LeafA, Str("abc")>>) }

Envelopes(T) == { Dict([tree |-> n]) : n \in T } \cup { List(<<Dict([tree |-> n])>>) : n \in T }

\* Payloads that are no envelope at all.
OddPayloads ==
    { Null, List(<<>>), Str("abc"), Num(7), Dict([error |-> Str("not found")]),
      List(<<Num(5)>>), List(<<Str("abc")>>), List(<<Str("tree")>>),
      List(<<Dict([id |-> Str("x")])>>), List(<<List(<<Str("tree")>>)>>) }

FlattenInputs == Envelopes(WellFormedTrees) \cup Envelopes(OddNodes) \cup OddPayloads

\* ------------------------------------------------------------ the inputs
\* None, for last_gene; gene identifiers are 1..MaxGenes.
None == 0

Symbols == {"foo", "bar"}
SymbolOf(k) == IF k % 2 = 1 THEN "foo" ELSE "bar"

\* The rows of Green_Anole_protein-coding_genes.csv as process_all_gene_trees
\* collects them: unique gene_id, a gene_symbol per row, in file order.
CsvGenes == [k \in 1..MaxGenes |-> [gene_id |-> k, gene_symbol |-> SymbolOf(k)]]

NoGene == [gene_id |-> None, gene_symbol |-> ""]
Unset == [t |-> "unset"]
EmptyDict == Dict([k \in {} |-> Null])

\* What the remote service can answer: an HTTP status with a decoded body,
\* or no answer (the 300 s timeout fires, or requests raises).
Response(status, body) == [exc |-> "none", status |-> status, body |-> body]
TimedOut == [exc |-> "timeout", status |-> 0, body |-> Null]
TransportError == [exc |-> "error", status |-> 0, body |-> Null]

PrimaryResponses ==
    { Response(200, Dict([display_name |-> Str("foo")])),
      Response(200, Dict([id |-> Str("g")])),
      Response(200, EmptyDict),
      Response(404, Null),
      TimedOut, TransportError }

TwoLeafTree == Dict([tree |-> Internal(<<LeafA, LeafB>>)])

DependentResponses ==
    { Response(200, TwoLeafTree),
      Response(200, List(<<Dict([tree |-> Internal(<<>>)])>>)),
      Response(200, List(<<>>)),
      Response(200, Str("abc")),
      Response(200, List(<<Num(5)>>)),
      Response(404, Null),
      TimedOut, TransportError }

\* fetch_gene_info / fetch_gene_tree_info on an answer: the body on status
\* 200, None on any other status; the timeout and transport errors raise.
fetch_gene_info(resp) ==
    IF resp.exc # "none" THEN Raise
    ELSE IF resp.status = 200 THEN Ok(resp.body) ELSE Ok(Null)

\* Mutant: a timeout or transport error of the dependent fetch is swallowed
\* and reported as "no data".
fetch_gene_tree_info_swallows(resp) ==
    IF resp.exc = "none" /\ resp.status = 200 THEN Ok(resp.body) ELSE Ok(Null)

fetch_gene_tree_info(resp) ==
    IF resp.exc # "none" THEN Raise
    ELSE IF resp.status = 200 THEN Ok(resp.body) ELSE Ok(Null)

\* gene_info.get('display_name', gene['gene_symbol'])
EffectiveSymbol(gene_info, g) ==
    IF "display_name" \in DOMAIN gene_info.d
    THEN gene_info.d["display_name"].s ELSE g.gene_symbol

\* The extension of the file lines 127-152 write for a dependent payload and
\* its flattened rows: the table, or the "No gene tree available" marker.
\* Mutant: the table is written whatever the rows are.
ArtifactExtAlwaysTable(gene_tree_info, processed_data) == "csv"

ArtifactExt(gene_tree_info, processed_data) ==
    IF Truthy(gene_tree_info) /\ processed_data # <<>> THEN "csv" ELSE "txt"

\* ------------------------------------------------------------- the files
Exts == {"csv", "txt"}
NoFile == [st |-> "none", rows |-> <<>>]
PartialFile == [st |-> "partial", rows |-> <<>>]
CsvFile(rows) == [st |-> "table", rows |-> rows]
MarkerFile == [st |-> "marker", rows |-> <<>>]

Range(s) == { s[n] : n \in 1..Len(s) }
\* list(processed_genes): the members in some order.
ListOf(S) == CHOOSE s \in [1..Cardinality(S) -> S] : Range(s) = S

AbsentCheckpoint ==
    [state |-> "absent", processed_genes |-> <<>>, last_gene |-> None,
     current_gene_number |-> 0]
TruncatedCheckpoint ==
    [state |-> "truncated", processed_genes |-> <<>>, last_gene |-> None,
     current_gene_number |-> 0]
\* json.dump of the three fields, closed.
DumpedCheckpoint(pg, lg, n) ==
    [state |-> "valid", processed_genes |-> ListOf(pg), last_gene |-> lg,
     current_gene_number |-> n]

\* load_checkpoint() on a readable file or on no file.
load_checkpoint(f) ==
    IF f.state = "valid"
    THEN [processed_genes |-> Range(f.processed_genes), last_gene |-> f.last_gene,
          current_gene_number |-> f.current_gene_number]
    ELSE [processed_genes |-> {}, last_gene |-> None, current_gene_number |-> 0]

BatchSize == 100

VARIABLES
    checkpoint_file,        \* checkpoint.json
    artifacts,              \* green_anole_gene_tree_files/<symbol>_gene_tree.<ext>
    processed_genes,        \* module global
    last_processed_gene,    \* module global
    current_gene_number,    \* module global
    loaded,                 \* the tuple load_checkpoint() returned to this run
    anole_genes,            \* process_all_gene_trees: the list read from the CSV
    batch_i,                \* process_all_gene_trees: i of the batch loop
    batch,                  \* process_gene_batch: the slice being iterated
    idx,                    \* process_gene_batch: how many genes of batch were taken
    gene,                   \* process_gene_batch: the loop variable
    gene_symbol,            \* process_gene_batch: effective display symbol
    gene_tree_info,         \* process_gene_batch: the dependent payload
    save_ret,               \* where the running save_checkpoint returns to
    pc,                     \* the next statement of the process
    run,                    \* how many times the script was started
    h_end,                  \* history: how the process ended
    h_sigpc,                \* history: the statement the signal or crash hit
    h_prev_end,             \* history: how the previous run ended
    h_started,              \* history: ids this run began to process, in order
    h_ops,                  \* history: <<operation, id>> performed by this run
    h_outcome,              \* history: how the latest identifier ended
    h_wrote,                \* history: artifacts written for the latest identifier
    h_pre,                  \* history: last_processed_gene and file when it began
    h_ckpt_writes,          \* history: checkpoint writes since it began
    h_snapshot,             \* history: the state as of the last completed identifier
    h_file_start,           \* history: checkpoint.json when this run started
    h_art_start,            \* history: the artifacts when this run started
    h_primary,              \* history: the answer to its primary fetch
    h_dependent,            \* history: the answer to its dependent fetch
    h_saved_over,           \* history: the file as the latest save_checkpoint found it
    exit_status,            \* the exit status of the process, once it has ended
    h_fatal,                \* history: the fatal condition this run met, if any
    h_slept,                \* history: time.sleep(1) ran since the latest remote call
    h_maxpos,               \* history: the highest current_gene_number since the load
    fl_in,      \* the payload handed to process_gene_tree_data
    fl_out,     \* what the call returned (or that it raised)
    fl_pc       \* "call" before the call, "returned" after it

flvars == <<fl_in, fl_out, fl_pc>>

fsvars == <<checkpoint_file, artifacts>>
globals == <<processed_genes, last_processed_gene, current_gene_number>>
locals == <<loaded, anole_genes, batch_i, batch, idx, gene, gene_symbol,
            gene_tree_info, save_ret>>
hrun == <<h_end, h_sigpc, h_prev_end, h_started, h_ops, h_art_start>>
hgene == <<h_outcome, h_wrote, h_pre, h_ckpt_writes>>
hall == <<h_snapshot, h_file_start>>
hresp == <<h_primary, h_dependent>>

\* No answer received yet.
NoResponse == [exc |-> "unset", status |-> 0, body |-> Null]

hmore == <<exit_status, h_fatal, h_slept, h_maxpos>>

\* The process has not exited.
NoExit == [exited |-> FALSE, code |-> 0]
Exit(code) == [exited |-> TRUE, code |-> code]

mainvars == <<fsvars, globals, locals, pc, run, hrun, hgene, hall, hresp, h_saved_over,
              hmore>>

vars == <<mainvars, flvars>>

\* Mutant: the identifier the loop holds is saved as completed.
MemCheckpointWithInFlight ==
    DumpedCheckpoint(processed_genes \cup ({gene.gene_id} \ {None}),
                     last_processed_gene, current_gene_number)

\* What save_checkpoint writes: the three module globals.
MemCheckpoint ==
    DumpedCheckpoint(processed_genes, last_processed_gene, current_gene_number)

\* The three fields a checkpoint file holds, the completed list as a set.
Fields(f) == load_checkpoint(f)

\* The module globals of a process just started (lines 14-17), and the locals
\* before anything is bound.
FreshProcess ==
    /\ processed_genes = {}
    /\ last_processed_gene = None
    /\ current_gene_number = 0
    /\ loaded = load_checkpoint(AbsentCheckpoint)
    /\ anole_genes = <<>>
    /\ batch_i = 0
    /\ batch = <<>>
    /\ idx = 0
    /\ gene = NoGene
    /\ gene_symbol = ""
    /\ gene_tree_info = Unset
    /\ save_ret = ""

MainInit ==
    /\ checkpoint_file = AbsentCheckpoint
    /\ artifacts = [n \in Symbols \X Exts |-> NoFile]
    /\ FreshProcess
    /\ pc = "main"
    /\ run = 1
    /\ h_end = "running"
    /\ h_sigpc = ""
    /\ h_prev_end = "none"
    /\ h_started = <<>>
    /\ h_ops = {}
    /\ h_art_start = [n \in Symbols \X Exts |-> NoFile]
    /\ h_outcome = "none"
    /\ h_wrote = {}
    /\ h_pre = [last |-> None, file |-> AbsentCheckpoint,
                artifacts |-> [n \in Symbols \X Exts |-> NoFile]]
    /\ h_primary = NoResponse
    /\ h_dependent = NoResponse
    /\ h_saved_over = AbsentCheckpoint
    /\ h_ckpt_writes = 0
    /\ h_snapshot = load_checkpoint(AbsentCheckpoint)
    /\ h_file_start = AbsentCheckpoint
    /\ exit_status = NoExit
    /\ h_fatal = "none"
    /\ h_slept = TRUE
    /\ h_maxpos = 0

Init ==
    /\ MainInit
    /\ fl_in = Null
    /\ fl_out = Raise
    /\ fl_pc = "off"

\* Line 180, first half: load_checkpoint() returns and processed_genes is
\* bound. json.load raises on a file that holds no complete record.
LoadCheckpoint ==
    /\ pc = "main"
    /\ IF checkpoint_file.state = "truncated"
       THEN /\ pc' = "except"
            /\ h_fatal' = "checkpoint"
            /\ UNCHANGED <<loaded, processed_genes, h_snapshot>>
       ELSE /\ loaded' = load_checkpoint(checkpoint_file)
            /\ processed_genes' = loaded'.processed_genes
            /\ h_snapshot' = loaded'
            /\ pc' = "store_position"
            /\ UNCHANGED h_fatal
    /\ UNCHANGED <<fsvars, last_processed_gene, current_gene_number, anole_genes,
                   batch_i, batch, idx, gene, gene_symbol, gene_tree_info, save_ret,
                   run, hrun, hgene, h_file_start, hresp, h_saved_over,
                   exit_status, h_slept, h_maxpos, flvars>>

\* Line 180, second half: last_gene (a local, never read) and then
\* current_gene_number are bound.
StorePosition ==
    /\ pc = "store_position"
    /\ current_gene_number' = loaded.current_gene_number
    /\ h_maxpos' = loaded.current_gene_number
    /\ pc' = "read_csv"
    /\ UNCHANGED <<fsvars, processed_genes, last_processed_gene, locals, run,
                   hrun, hgene, hall, hresp, h_saved_over,
                   exit_status, h_fatal, h_slept, flvars>>

\* Lines 183-211: the identifier list is read, or opening it raises; the
\* batch loop's range starts at current_gene_number.
ReadGenes ==
    /\ pc = "read_csv"
    /\ \/ /\ anole_genes' = CsvGenes
          /\ batch_i' = current_gene_number
          /\ pc' = "batch"
          /\ UNCHANGED h_fatal
       \/ /\ pc' = "except"
          /\ h_fatal' = "source"
          /\ UNCHANGED <<anole_genes, batch_i>>
    /\ UNCHANGED <<fsvars, globals, loaded, batch, idx, gene, gene_symbol,
                   gene_tree_info, save_ret, run, hrun, hgene, hall, hresp, h_saved_over,
                   exit_status, h_slept, h_maxpos, flvars>>

Min(a, b) == IF a < b THEN a ELSE b

\* Lines 211-217: the next slice of the list, or the final save.
BatchLoop ==
    /\ pc = "batch"
    /\ IF batch_i < Len(anole_genes)
       THEN /\ batch' = SubSeq(anole_genes, batch_i + 1,
                               Min(batch_i + BatchSize, Len(anole_genes)))
            /\ idx' = 0
            /\ pc' = "for"
            /\ UNCHANGED save_ret
       ELSE /\ pc' = "save_open"
            /\ save_ret' = "normal"
            /\ UNCHANGED <<batch, idx>>
    /\ UNCHANGED <<fsvars, globals, loaded, anole_genes, batch_i, gene, gene_symbol,
                   gene_tree_info, run, hrun, hgene, hall, hresp, h_saved_over,
                   hmore, flvars>>

\* Line 105: the for loop takes the next gene of the batch, or the batch ends.
ForGene ==
    /\ pc = "for"
    /\ IF idx < Len(batch)
       THEN /\ gene' = batch[idx + 1]
            /\ idx' = idx + 1
            /\ gene_symbol' = ""
            /\ gene_tree_info' = Unset
            /\ pc' = "inc"
            /\ h_outcome' = "PENDING"
            /\ h_wrote' = {}
            /\ h_pre' = [last |-> last_processed_gene, file |-> checkpoint_file,
                         artifacts |-> artifacts]
            /\ h_primary' = NoResponse
            /\ h_dependent' = NoResponse
            /\ h_ckpt_writes' = 0
            /\ UNCHANGED batch_i
       ELSE /\ batch_i' = batch_i + BatchSize
            /\ pc' = "batch"
            /\ UNCHANGED <<gene, idx, gene_symbol, gene_tree_info, hgene, hresp>>
    /\ UNCHANGED <<fsvars, globals, loaded, anole_genes, batch, save_ret, run,
                   hrun, hall, h_saved_over,
                   hmore, flvars>>

\* Line 106
Increment ==
    /\ pc = "inc"
    /\ current_gene_number' = current_gene_number + 1
    /\ h_maxpos' = IF current_gene_number' > h_maxpos THEN current_gene_number' ELSE h_maxpos
    /\ pc' = "skip_test"
    /\ UNCHANGED <<fsvars, processed_genes, last_processed_gene, locals, run,
                   hrun, hgene, hall, hresp, h_saved_over,
                   exit_status, h_fatal, h_slept, flvars>>

\* Mutant: the membership test of line 108 is gone.
SkipTestNeverSkips ==
    /\ pc = "skip_test"
    /\ h_started' = Append(h_started, gene.gene_id)
    /\ pc' = "fetch_info"
    /\ UNCHANGED <<fsvars, globals, locals, run, h_end, h_sigpc, h_prev_end, h_ops,
                   h_art_start, hgene, hall, hresp, h_saved_over, hmore, flvars>>

\* Lines 108-112
SkipTest ==
    /\ pc = "skip_test"
    /\ IF gene.gene_id \in processed_genes
       THEN /\ h_outcome' = "SKIPPED"
            /\ pc' = "for"
            /\ UNCHANGED h_started
       ELSE /\ h_started' = Append(h_started, gene.gene_id)
            /\ pc' = "fetch_info"
            /\ UNCHANGED h_outcome
    /\ UNCHANGED <<fsvars, globals, locals, run, h_end, h_sigpc, h_prev_end, h_ops,
                   h_art_start, h_wrote, h_pre, h_ckpt_writes, hall, hresp, h_saved_over,
                   hmore, flvars>>

\* Lines 116-121: the primary fetch; a raise goes to the except clauses and
\* the sleep, a falsy result to `continue`.
FetchInfo ==
    /\ pc = "fetch_info"
    /\ \E resp \in PrimaryResponses :
         LET r == fetch_gene_info(resp) IN
         /\ h_primary' = resp
         /\ IF ~r.ok
            THEN /\ pc' = "sleep"
                 /\ h_outcome' = "FAILED_PRIMARY_RAISED"
                 /\ UNCHANGED gene_symbol
            ELSE IF ~Truthy(r.data)
                 THEN /\ pc' = "for"
                      /\ h_outcome' = "FAILED_PRIMARY_ABSENT"
                      /\ UNCHANGED gene_symbol
                 ELSE /\ gene_symbol' = EffectiveSymbol(r.data, gene)
                      /\ pc' = "fetch_tree"
                      /\ UNCHANGED h_outcome
    /\ h_ops' = h_ops \cup {<<"primary", gene.gene_id>>}
    /\ h_slept' = FALSE
    /\ UNCHANGED <<fsvars, globals, loaded, anole_genes, batch_i, batch, idx, gene,
                   gene_tree_info, save_ret, run, h_end, h_sigpc, h_prev_end,
                   h_started, h_art_start, h_wrote, h_pre, h_ckpt_writes, hall, h_dependent, h_saved_over,
                   exit_status, h_fatal, h_maxpos, flvars>>

\* Line 124: the dependent fetch.
FetchTree ==
    /\ pc = "fetch_tree"
    /\ \E resp \in DependentResponses :
         LET r == fetch_gene_tree_info(resp) IN
         /\ h_dependent' = resp
         /\ IF ~r.ok
            THEN /\ pc' = "sleep"
                 /\ h_outcome' = "FAILED_DEPENDENT_RAISED"
                 /\ UNCHANGED gene_tree_info
            ELSE /\ gene_tree_info' = r.data
                 /\ pc' = "write_open"
                 /\ UNCHANGED h_outcome
    /\ h_ops' = h_ops \cup {<<"dependent", gene.gene_id>>}
    /\ h_slept' = FALSE
    /\ UNCHANGED <<fsvars, globals, loaded, anole_genes, batch_i, batch, idx, gene,
                   gene_symbol, save_ret, run, h_end, h_sigpc, h_prev_end,
                   h_started, h_art_start, h_wrote, h_pre, h_ckpt_writes, hall, h_primary, h_saved_over,
                   exit_status, h_fatal, h_maxpos, flvars>>

\* Line 128, guarded by line 127: the rows of the payload.
Flattened(info) == IF Truthy(info) THEN process_gene_tree_data(info) ELSE Ok(<<>>)

\* Lines 127-150: the payload is flattened (a raise goes to the except clause)
\* and the output file is opened for writing, which empties it.
WriteOpen ==
    /\ pc = "write_open"
    /\ LET flat == Flattened(gene_tree_info) IN
       IF ~flat.ok
       THEN /\ pc' = "sleep"
            /\ h_outcome' = "FAILED_FLATTEN_RAISED"
            /\ UNCHANGED <<artifacts, h_ops, h_wrote>>
       ELSE LET name == <<gene_symbol, ArtifactExt(gene_tree_info, flat.data)>> IN
            /\ artifacts' = [artifacts EXCEPT ![name] = PartialFile]
            /\ h_ops' = h_ops \cup {<<"write", gene.gene_id>>}
            /\ h_wrote' = h_wrote \cup {name}
            /\ pc' = "write_close"
            /\ UNCHANGED h_outcome
    /\ UNCHANGED <<checkpoint_file, globals, locals, run, h_end, h_sigpc, h_prev_end,
                   h_started, h_art_start, h_pre, h_ckpt_writes, hall, hresp, h_saved_over,
                   hmore, flvars>>

\* Lines 133-152: the rows or the marker are written and the file is closed.
WriteClose ==
    /\ pc = "write_close"
    /\ LET flat == Flattened(gene_tree_info)
           ext == ArtifactExt(gene_tree_info, flat.data) IN
       artifacts' = [artifacts EXCEPT ![<<gene_symbol, ext>>] =
                        IF ext = "csv" THEN CsvFile(flat.data) ELSE MarkerFile]
    /\ h_ops' = h_ops \cup {<<"written", gene.gene_id>>}
    /\ pc' = "add"
    /\ UNCHANGED <<checkpoint_file, globals, locals, run, h_end, h_sigpc, h_prev_end,
                   h_started, h_art_start, hgene, hall, hresp, h_saved_over, hmore, flvars>>

\* Line 157
AddProcessed ==
    /\ pc = "add"
    /\ processed_genes' = processed_genes \cup {gene.gene_id}
    /\ pc' = "set_last"
    /\ UNCHANGED <<fsvars, last_processed_gene, current_gene_number, locals, run,
                   hrun, hgene, hall, hresp, h_saved_over,
                   hmore, flvars>>

\* Lines 158-161: last_processed_gene is set and save_checkpoint is called.
SetLast ==
    /\ pc = "set_last"
    /\ last_processed_gene' = gene.gene_id
    /\ save_ret' = "sleep"
    /\ pc' = "save_open"
    /\ UNCHANGED <<fsvars, processed_genes, current_gene_number, loaded, anole_genes,
                   batch_i, batch, idx, gene, gene_symbol, gene_tree_info, run,
                   hrun, hgene, hall, hresp, h_saved_over,
                   hmore, flvars>>

\* Line 74: open('checkpoint.json', 'w') empties the file.
SaveOpen ==
    /\ pc = "save_open"
    /\ checkpoint_file' = TruncatedCheckpoint
    /\ h_saved_over' = checkpoint_file
    /\ h_ckpt_writes' = h_ckpt_writes + 1
    /\ pc' = "save_dump"
    /\ UNCHANGED <<artifacts, globals, locals, run, hrun, h_outcome, h_wrote, h_pre,
                   hall, hresp, hmore, flvars>>

\* Lines 75-80: the record is dumped and the file closed; save_checkpoint
\* returns to the gene loop (line 169), or the script ends (lines 217, 231).
SaveDump ==
    /\ pc = "save_dump"
    /\ checkpoint_file' = MemCheckpoint
    /\ IF save_ret = "sleep"
       THEN /\ pc' = "sleep"
            /\ h_outcome' = "COMPLETED"
            /\ h_snapshot' = Fields(MemCheckpoint)
            /\ UNCHANGED <<h_end, exit_status>>
       ELSE /\ pc' = "ended"
            /\ h_end' = save_ret
            /\ exit_status' = Exit(0)
            /\ UNCHANGED <<h_outcome, h_snapshot>>
    /\ UNCHANGED <<artifacts, globals, locals, run, h_sigpc, h_prev_end, h_started,
                   h_ops, h_art_start, h_wrote, h_pre, h_ckpt_writes, h_file_start,
                   hresp, h_saved_over, h_fatal, h_slept, h_maxpos, flvars>>

\* Mutant: the except clauses raise again, out of the batch.
SleepAborts ==
    /\ pc = "sleep"
    /\ h_slept' = TRUE
    /\ pc' = IF h_outcome = "COMPLETED" THEN "for" ELSE "except"
    /\ UNCHANGED <<fsvars, globals, locals, run, hrun, hgene, hall, hresp, h_saved_over,
                   exit_status, h_fatal, h_maxpos, flvars>>

\* Lines 163-169: an exception raised since line 116 has been handled; the
\* delay, and the loop goes on.
Sleep ==
    /\ pc = "sleep"
    /\ h_slept' = TRUE
    /\ pc' = "for"
    /\ UNCHANGED <<fsvars, globals, locals, run, hrun, hgene, hall, hresp, h_saved_over,
                   exit_status, h_fatal, h_maxpos, flvars>>

\* Lines 227-231: the handler of the main block saves and the script ends.
Except ==
    /\ pc = "except"
    /\ save_ret' = "except"
    /\ pc' = "save_open"
    /\ UNCHANGED <<fsvars, globals, loaded, anole_genes, batch_i, batch, idx, gene,
                   gene_symbol, gene_tree_info, run, hrun, hgene, hall, hresp, h_saved_over,
                   hmore, flvars>>

Running == pc # "ended"

\* Lines 95-99: SIGINT or SIGTERM between any two statements; the handler
\* saves the module globals as they are and exits with status 0.
Signal ==
    /\ Running
    /\ checkpoint_file' = MemCheckpoint
    /\ h_ckpt_writes' = h_ckpt_writes + 1
    /\ pc' = "ended"
    /\ h_end' = "signal"
    /\ h_sigpc' = pc
    /\ exit_status' = Exit(0)
    /\ UNCHANGED <<artifacts, globals, locals, run, h_prev_end, h_started, h_ops,
                   h_art_start, h_outcome, h_wrote, h_pre, h_snapshot, h_file_start,
                   hresp, h_saved_over, h_fatal, h_slept, h_maxpos, flvars>>

\* The script is started again: lines 14-17 and 222-223 run anew, the files
\* are as the previous process left them.
Restart ==
    /\ pc = "ended"
    /\ run < MaxRuns
    /\ processed_genes' = {}
    /\ last_processed_gene' = None
    /\ current_gene_number' = 0
    /\ loaded' = load_checkpoint(AbsentCheckpoint)
    /\ anole_genes' = <<>>
    /\ batch_i' = 0
    /\ batch' = <<>>
    /\ idx' = 0
    /\ gene' = NoGene
    /\ gene_symbol' = ""
    /\ gene_tree_info' = Unset
    /\ save_ret' = ""
    /\ pc' = "main"
    /\ run' = run + 1
    /\ h_prev_end' = h_end
    /\ h_end' = "running"
    /\ h_sigpc' = ""
    /\ h_started' = <<>>
    /\ h_ops' = {}
    /\ h_art_start' = artifacts
    /\ h_outcome' = "none"
    /\ h_wrote' = {}
    /\ h_pre' = [last |-> None, file |-> checkpoint_file, artifacts |-> artifacts]
    /\ h_primary' = NoResponse
    /\ h_dependent' = NoResponse
    /\ h_ckpt_writes' = 0
    /\ h_snapshot' = Fields(checkpoint_file)
    /\ h_file_start' = checkpoint_file
    /\ h_saved_over' = checkpoint_file
    /\ exit_status' = NoExit
    /\ h_fatal' = "none"
    /\ h_slept' = TRUE
    /\ h_maxpos' = 0
    /\ UNCHANGED <<fsvars, flvars>>

\* The process dies with no handler run (SIGKILL, power loss).
Crash ==
    /\ Running
    /\ pc' = "ended"
    /\ h_end' = "crash"
    /\ h_sigpc' = pc
    /\ UNCHANGED <<fsvars, globals, locals, run, h_prev_end, h_started, h_ops,
                   h_art_start, hgene, hall, hresp, h_saved_over,
                   hmore, flvars>>

\* Line 74 raises OSError (the file cannot be opened for writing): inside
\* the per-gene try the handler of line 165 takes it, the save of line 217
\* raises into the handler of line 227, and the save of line 230 raises out
\* of the script, which ends with a traceback and status 1.
SaveFails ==
    /\ pc = "save_open"
    /\ h_fatal' = "save"
    /\ CASE save_ret = "sleep" ->
              /\ pc' = "sleep"
              /\ h_outcome' = "FAILED_SAVE_RAISED"
              /\ UNCHANGED <<h_end, exit_status>>
         [] save_ret = "normal" ->
              /\ pc' = "except"
              /\ UNCHANGED <<h_outcome, h_end, exit_status>>
         [] OTHER ->
              /\ pc' = "ended"
              /\ h_end' = "uncaught"
              /\ exit_status' = Exit(1)
              /\ UNCHANGED h_outcome
    /\ UNCHANGED <<fsvars, globals, locals, run, h_sigpc, h_prev_end, h_started, h_ops,
                   h_art_start, h_wrote, h_pre, h_ckpt_writes, hall, hresp, h_saved_over,
                   h_slept, h_maxpos, flvars>>

\* Lines 133-151: writing the rows or the marker raises (the disk is full);
\* the handler of line 165 takes it and the file stays as far as it got.
WriteFails ==
    /\ pc = "write_close"
    /\ pc' = "sleep"
    /\ h_outcome' = "FAILED_WRITE_RAISED"
    /\ UNCHANGED <<fsvars, globals, locals, run, hrun, h_wrote, h_pre, h_ckpt_writes,
                   hall, hresp, h_saved_over, hmore, flvars>>

\* The statements of the script, one after the other.
Step ==
    \/ LoadCheckpoint \/ StorePosition \/ ReadGenes \/ BatchLoop \/ ForGene
    \/ Increment \/ SkipTest \/ FetchInfo \/ FetchTree \/ WriteOpen \/ WriteClose
    \/ AddProcessed \/ SetLast \/ SaveOpen \/ SaveDump \/ Sleep \/ Except

Next ==
    \/ LoadCheckpoint \/ StorePosition \/ ReadGenes \/ BatchLoop \/ ForGene
    \/ Increment \/ SkipTest \/ FetchInfo \/ FetchTree \/ WriteOpen \/ WriteClose
    \/ AddProcessed \/ SetLast \/ SaveOpen \/ SaveDump \/ Sleep \/ Except
    \/ Signal \/ Restart

Spec == Init /\ [][Next]_vars

NextCrash == Next \/ Crash

SpecCrash == Init /\ [][NextCrash]_vars

\* The runs in which opening the checkpoint or writing an artifact may fail.
NextIO == Next \/ SaveFails \/ WriteFails

SpecIO == Init /\ [][NextIO]_vars

\* The runs no signal interrupts. Python executes the next statement as long
\* as there is one, and each remote call returns or times out after 300 s.
NextUninterrupted == Step \/ Restart \/ WriteFails

SpecUninterrupted == Init /\ [][NextUninterrupted]_vars /\ WF_vars(Step)

\* ------------------------------------------- the flattener, on its own
FlattenInit ==
    /\ MainInit
    /\ fl_in \in FlattenInputs
    /\ fl_out = Raise
    /\ fl_pc = "call"

FlattenCall ==
    /\ fl_pc = "call"
    /\ fl_out' = process_gene_tree_data(fl_in)
    /\ fl_pc' = "returned"
    /\ UNCHANGED <<fl_in, mainvars>>

SpecFlatten == FlattenInit /\ [][FlattenCall]_vars

\* ------------------------------------------------------------- the claims
ListIds == [k \in 1..MaxGenes |-> CsvGenes[k].gene_id]

\* The persisted completed set, as a following load would return it.
Persisted == Fields(checkpoint_file).processed_genes

IsPrefixOfList(S) == \E m \in 0..MaxGenes : S = { ListIds[k] : k \in 1..m }

NotIn(S, g) == g \notin S
RemainingAfter(S) == SelectSeq(ListIds, LAMBDA g : NotIn(S, g))

EndedBy(how) == pc = "ended" /\ h_end = how

\* C1 (Resume correctness): when the previous run was ended by a signal and
\* the completed set it persisted is a prefix of the list, a run that reaches
\* its normal end has processed exactly the identifiers outside that set, in
\* list order, each once.
C1_ResumeProcessesRemaining ==
    (EndedBy("normal") /\ h_prev_end = "signal" /\ IsPrefixOfList(loaded.processed_genes))
        => h_started = RemainingAfter(loaded.processed_genes)

\* C2 (skip decision is membership, not position): a run that reaches its
\* normal end has issued the primary fetch of every identifier of the list
\* that was not in the completed set it loaded.
C2_UncompletedAreAttempted ==
    EndedBy("normal")
        => \A k \in 1..MaxGenes :
             ListIds[k] \notin loaded.processed_genes
                 => <<"primary", ListIds[k]>> \in h_ops

\* C3 (never reprocess a completed item): a run performs no primary fetch, no
\* dependent fetch and no artifact write for an identifier of the completed
\* set it loaded, and a run started after a run that reached its normal end
\* leaves every artifact as it found it.
C3_NoReprocessing ==
    /\ \A o \in h_ops : o[2] \notin loaded.processed_genes
    /\ h_prev_end = "normal" => artifacts = h_art_start

\* C3 witness: a run skipped an identifier it loaded as completed, with an
\* artifact on disk, having fetched and written nothing.
C3_Witness ==
    /\ pc = "for"
    /\ h_outcome = "SKIPPED"
    /\ gene.gene_id \in loaded.processed_genes
    /\ \E n \in DOMAIN artifacts : artifacts[n].st \in {"table", "marker"}
    /\ h_ops = {}

\* C4 (never lose progress): whenever a process has ended, by its normal
\* end, a signal or the failure path, every identifier that was persisted as
\* completed when it started is in the persisted completed set.
C4_CompletedNeverShrinks ==
    pc = "ended" => Fields(h_file_start).processed_genes \subseteq Persisted

\* A signal that arrived between two identifiers of this run: after one was
\* completed, failed or skipped and before the loop took the next.
InterruptedBetweenIdentifiers ==
    /\ EndedBy("signal")
    /\ h_sigpc \in {"sleep", "for"}
    /\ h_outcome \notin {"none", "PENDING"}

\* C5 (crash safety): after a signal between two identifiers the checkpoint
\* file is valid and equal in all three fields to the state as of the last
\* fully completed identifier.
C5_InterruptionKeepsLastCompletedState ==
    InterruptedBetweenIdentifiers
        => /\ checkpoint_file.state = "valid"
           /\ Fields(checkpoint_file) = h_snapshot

\* C6 (atomic save): a process that died inside save_checkpoint leaves the
\* file holding the complete record it found or the complete new record.
C6_SaveIsAtomic ==
    (EndedBy("crash") /\ h_sigpc = "save_dump")
        => checkpoint_file \in {h_saved_over, MemCheckpoint}

\* The identifiers whose artifact this run wrote completely.
WrittenThisRun == { o[2] : o \in { x \in h_ops : x[1] = "written" } }

\* C7 (checkpoint/artifact agreement), for the first run in an empty output
\* directory, where the identifiers with an artifact are those this run
\* wrote: however the run ends, the persisted completed set is exactly the
\* set of identifiers whose artifact was written completely.
C7_CheckpointMatchesArtifacts ==
    (pc = "ended" /\ h_prev_end = "none") => Persisted = WrittenThisRun

\* The latest identifier's processing is over and the loop goes on.
IdentifierOver == pc \in {"sleep", "for"} /\ h_primary # NoResponse

PrimarySucceeded ==
    h_primary.exc = "none" /\ h_primary.status = 200 /\ Truthy(h_primary.body)

\* The dependent lookup answered with a non-success status, an empty result
\* or a payload whose rows are empty.
DependentHasNoData ==
    /\ h_dependent.exc = "none"
    /\ \/ h_dependent.status # 200
       \/ ~Truthy(h_dependent.body)
       \/ process_gene_tree_data(h_dependent.body) = Ok(<<>>)

\* The symbol the artifact is named from: the primary answer's display_name,
\* else the symbol of the list row.
DisplaySymbol ==
    IF "display_name" \in DOMAIN h_primary.body.d
    THEN h_primary.body.d["display_name"].s ELSE SymbolOf(gene.gene_id)

\* C8 (no-data is a completed outcome): when the primary fetch succeeded and
\* the dependent lookup had no data, the identifier's processing ends with
\* exactly the marker artifact written for the display symbol, the identifier
\* in completed and the checkpoint persisted with it.
C8_NoDataCompletes ==
    (IdentifierOver /\ PrimarySucceeded /\ DependentHasNoData)
        => /\ h_outcome = "COMPLETED"
           /\ h_wrote = {<<DisplaySymbol, "txt">>}
           /\ artifacts[<<DisplaySymbol, "txt">>] = MarkerFile
           /\ artifacts[<<DisplaySymbol, "csv">>] = h_pre.artifacts[<<DisplaySymbol, "csv">>]
           /\ gene.gene_id \in processed_genes
           /\ checkpoint_file.state = "valid"
           /\ gene.gene_id \in Persisted

\* C8 witness: an identifier completed on a tree payload that flattens to no
\* rows, its symbol taken from the primary answer.
C8_Witness ==
    /\ IdentifierOver /\ PrimarySucceeded /\ DependentHasNoData
    /\ h_dependent.status = 200 /\ Truthy(h_dependent.body)
    /\ DisplaySymbol # SymbolOf(gene.gene_id)
    /\ h_outcome = "COMPLETED"

PrimaryFailed ==
    h_primary # NoResponse /\ (h_primary.exc # "none" \/ h_primary.status # 200)

DependentRaised == h_dependent.exc \in {"timeout", "error"}

\* C9 (fetch failure leaves no trace): when the primary fetch returned
\* non-success, or either fetch timed out or raised, the identifier's
\* processing ends with no artifact written, the identifier not in completed,
\* last_processed_gene unchanged and the checkpoint file not written.
C9_FetchFailureLeavesNoTrace ==
    (IdentifierOver /\ (PrimaryFailed \/ DependentRaised))
        => /\ h_wrote = {}
           /\ artifacts = h_pre.artifacts
           /\ gene.gene_id \notin processed_genes
           /\ last_processed_gene = h_pre.last
           /\ h_ckpt_writes = 0
           /\ checkpoint_file = h_pre.file

\* C9 witness: a dependent fetch timed out after a successful primary fetch,
\* in a run that had completed another identifier before.
C9_Witness ==
    /\ IdentifierOver /\ PrimarySucceeded /\ h_dependent.exc = "timeout"
    /\ last_processed_gene # None
    /\ pc = "sleep"

\* The reference enumeration: one row per node without children, depth
\* first, left to right; a missing field reads "N/A".
RECURSIVE RefLeaves(_)
RECURSIVE RefLeavesOfAll(_)
RefLeavesOfAll(seq) ==
    IF Len(seq) = 0 THEN <<>> ELSE RefLeaves(Head(seq)) \o RefLeavesOfAll(Tail(seq))

RefLeaves(node) ==
    IF "children" \in DOMAIN node.d
    THEN RefLeavesOfAll(node.d["children"].l)
    ELSE << [gene_id   |-> Get(node, "id", NA),
             gene_name |-> IF "gene_member" \in DOMAIN node.d
                           THEN Get(node.d["gene_member"], "display_name", NA) ELSE NA,
             species   |-> IF "taxonomy" \in DOMAIN node.d
                           THEN Get(node.d["taxonomy"], "scientific_name", NA) ELSE NA] >>

RootOf(payload) ==
    IF payload.t = "list" THEN payload.l[1].d["tree"] ELSE payload.d["tree"]

\* C10 (flattening correctness): on every tree the flattener returns the
\* reference enumeration of its leaves.
C10_FlattenEqualsReference ==
    (fl_pc = "returned" /\ fl_in \in Envelopes(WellFormedTrees))
        => fl_out = Ok(RefLeaves(RootOf(fl_in)))

\* C11 (interruption handling): a process ended by a signal executes no
\* further statement, the checkpoint file holds the module globals as they
\* were, every identifier persisted as completed was loaded as completed or
\* had its artifact written and closed by this run, and the exit status is 0.
C11_InterruptionHandling ==
    EndedBy("signal")
        => /\ ~ENABLED Step
           /\ checkpoint_file = MemCheckpoint
           /\ \A g \in Persisted :
                 g \in loaded.processed_genes \/ <<"written", g>> \in h_ops
           /\ exit_status = Exit(0)

\* C11 witness: the signal arrived while an artifact was half written, in a
\* run that had completed another identifier before.
C11_Witness ==
    /\ EndedBy("signal")
    /\ h_sigpc = "write_close"
    /\ gene.gene_id \notin Persisted
    /\ Persisted # {}
    /\ \E n \in DOMAIN artifacts : artifacts[n] = PartialFile

\* How the processing of an identifier ends when it fails.
Failures ==
    {"FAILED_PRIMARY_ABSENT", "FAILED_PRIMARY_RAISED", "FAILED_DEPENDENT_RAISED",
     "FAILED_FLATTEN_RAISED", "FAILED_WRITE_RAISED"}

\* The k-th identifier of the list has failed.
Failed(k) == gene.gene_id = ListIds[k] /\ h_outcome \in Failures

\* The run that fetched the k-th identifier has left the loop over the list,
\* and for every identifier after the k-th the primary fetch was issued,
\* unless it was loaded as completed.
ListEndedAfter(k) ==
    /\ save_ret = "normal"
    /\ <<"primary", ListIds[k]>> \in h_ops
    /\ \A j \in (k + 1)..MaxGenes :
          <<"primary", ListIds[j]>> \in h_ops \/ ListIds[j] \in loaded.processed_genes

\* C12 (failure isolation): in a run no signal interrupts, once an
\* identifier has failed (primary absent, timeout, transport error, exception
\* while flattening or writing) the run goes on to the end of the list and
\* every later identifier is attempted.
C12_FailureIsIsolated ==
    \A k \in 1..MaxGenes : Failed(k) ~> ListEndedAfter(k)

\* C12 witness: the list ended in a run whose first identifier had failed
\* and whose last identifier was fetched and completed after it.
C12_Witness ==
    /\ save_ret = "normal"
    /\ h_started = ListIds
    /\ ListIds[1] \notin processed_genes
    /\ ListIds[MaxGenes] \in processed_genes
    /\ pc = "save_dump"

\* The run met a condition the script cannot go on from: the identifier list
\* could not be read, or the checkpoint could not be written.
FatalCondition == h_fatal \in {"source", "save"}

\* The process ended by itself, not by a signal.
EndedByItself == pc = "ended" /\ h_end \in {"normal", "except", "uncaught"}

\* C13 (fatal conditions exit non-zero): a run that could not read the
\* identifier list or could not write the checkpoint ends with a non-zero
\* exit status, and a failed save is not taken as the failure of the
\* identifier being processed.
C13_FatalExitsNonZero ==
    /\ h_outcome # "FAILED_SAVE_RAISED"
    /\ (EndedByItself /\ FatalCondition)
           => (exit_status.exited /\ exit_status.code # 0)

\* The dependent lookup answered 200 with a non-empty payload that is no tree:
\* neither a dict with 'tree' nor a list whose first element is one, or a
\* root that is no dict.
IsEnvelope(j) == j.t = "dict" /\ "tree" \in DOMAIN j.d /\ j.d["tree"].t = "dict"

DependentMalformed ==
    /\ h_dependent.exc = "none"
    /\ h_dependent.status = 200
    /\ Truthy(h_dependent.body)
    /\ ~IsEnvelope(h_dependent.body)
    /\ ~(h_dependent.body.t = "list" /\ IsEnvelope(h_dependent.body.l[1]))

\* C14 (a malformed dependent payload is a failure, not no-data): when the
\* primary fetch succeeded and the dependent payload is malformed, the
\* identifier's processing ends failed, with no artifact written and the
\* identifier not in completed.
C14_MalformedPayloadFails ==
    (IdentifierOver /\ PrimarySucceeded /\ DependentMalformed)
        => /\ h_outcome \in Failures
           /\ h_wrote = {}
           /\ gene.gene_id \notin processed_genes

\* C15 (the checkpoint is persisted synchronously per completed identifier):
\* once an identifier is completed it is in processed_genes, it is
\* last_processed_gene and the file holds that state; and whenever the primary
\* fetch of an identifier is about to start, the persisted completed set and
\* last_gene equal the ones in memory.
C15_PersistedBeforeNext ==
    /\ (Running /\ h_outcome = "COMPLETED")
          => /\ gene.gene_id \in processed_genes
             /\ last_processed_gene = gene.gene_id
             /\ checkpoint_file = MemCheckpoint
    /\ pc = "fetch_info"
          => /\ Persisted = processed_genes
             /\ Fields(checkpoint_file).last_gene = last_processed_gene

\* load_checkpoint() has returned to this run.
LoadReturned == pc # "main" /\ ~(pc = "ended" /\ h_sigpc = "main") /\ h_fatal # "checkpoint"

\* current_gene_number has been bound from the loaded tuple.
PositionLoaded ==
    LoadReturned /\ pc # "store_position" /\ ~(pc = "ended" /\ h_sigpc = "store_position")

\* C16 (position is monotone and bounded in a run): once the checkpoint is
\* loaded the position in memory is the highest it has been since, a
\* complete checkpoint file holds a position that is at least the loaded
\* one, and the position is at most the length of the list.
C16_PositionMonotoneBounded ==
    /\ PositionLoaded => current_gene_number = h_maxpos
    /\ (LoadReturned /\ checkpoint_file.state = "valid")
          => checkpoint_file.current_gene_number >= loaded.current_gene_number
    /\ current_gene_number <= Len(CsvGenes)

\* How many nodes of a tree are extracted: the nodes without 'children' that
\* carry a taxonomy.
RECURSIVE ExtractedLeafCount(_)
RECURSIVE ExtractedLeafCountOfAll(_)
ExtractedLeafCountOfAll(seq) ==
    IF Len(seq) = 0 THEN 0
    ELSE ExtractedLeafCount(Head(seq)) + ExtractedLeafCountOfAll(Tail(seq))

ExtractedLeafCount(node) ==
    IF "children" \in DOMAIN node.d
    THEN ExtractedLeafCountOfAll(node.d["children"].l)
    ELSE IF "taxonomy" \in DOMAIN node.d THEN 1 ELSE 0

\* The payloads that hold a tree of dict nodes.
TreePayloads == Envelopes(WellFormedTrees)

\* The fields the internal nodes of the drawn trees carry, and no leaf does.
InternalId == Str("I1")
InternalSpecies == Str("Species I")

\* C17 (internal nodes are never extracted): the flattener returns no record
\* made of the fields of a node that has 'children', also when the children
\* list is empty, and as many records as leaves were extracted.
C17_InternalNodesNotExtracted ==
    (fl_pc = "returned" /\ fl_in \in TreePayloads)
        => /\ fl_out.ok
           /\ \A n \in 1..Len(fl_out.data) :
                 /\ fl_out.data[n].gene_id # InternalId
                 /\ fl_out.data[n].species # InternalSpecies
           /\ Len(fl_out.data) = ExtractedLeafCount(RootOf(fl_in))

\* C17 witness: a root with an empty children list that carries a taxonomy
\* and an id was flattened to no record.
C17_Witness ==
    /\ fl_pc = "returned"
    /\ fl_in = Dict([tree |-> InternalWithFields(<<>>)])
    /\ fl_out = Ok(<<>>)

\* C18 (artifact kinds are mutually exclusive): for every display symbol at
\* most one of the table and the marker exists in the output directory.
C18_ArtifactKindsExclusive ==
    \A sym \in Symbols :
        ~(artifacts[<<sym, "csv">>].st = "table" /\ artifacts[<<sym, "txt">>].st = "marker")

\* C19 (throttling between identifiers): when the first remote call of an
\* identifier is about to be issued, the delay has run since the latest
\* remote call of the run.
C19_DelayBetweenIdentifiers ==
    pc = "fetch_info" => h_slept

\* C20 (the persisted checkpoint is self-consistent): in every complete
\* checkpoint file last_gene is None only if the completed list is empty, and
\* otherwise is in the list; and a run that completed no identifier leaves
\* the last_gene it loaded in the file it writes.
C20_CheckpointSelfConsistent ==
    checkpoint_file.state = "valid"
        => /\ checkpoint_file.last_gene = None => Persisted = {}
           /\ checkpoint_file.last_gene # None => checkpoint_file.last_gene \in Persisted
           /\ (LoadReturned /\ loaded.last_gene # None
                  /\ processed_genes = loaded.processed_genes)
                 => checkpoint_file.last_gene = loaded.last_gene
====
